---- MODULE Spec2Model ----
(***************************************************************************)
(* v0-cli: the credential and link store (config.ts), the file collector   *)
(* (files.ts) and the command handlers with their error wrapper            *)
(* (index.ts).  One action is one invocation of the CLI: the process is    *)
(* single-threaded and exits after one command, so an invocation is a      *)
(* sequential run whose remote outcomes are inputs.                        *)
(***************************************************************************)
EXTENDS Integers, Sequences, FiniteSets, TLC

VARIABLES
    configDir,      \* does ~/.config/v0 exist
    configFile,     \* ~/.config/v0/config.json: [exists, text]
    linkFile,       \* ./.v0: [exists, text]
    run,            \* the last invocation: its inputs and everything it did
    patterns,       \* the argument of the last collectFiles call
    files,          \* the value the last collectFiles call returned
    collected,      \* has collectFiles returned for the current patterns
    authSeq,        \* progress through login, logout, whoami (no env key)
    lastLinkOp      \* the most recent write/remove of the link file

vars == <<configDir, configFile, linkFile, run, patterns, files, collected,
          authSeq, lastLinkOp>>

----------------------------------------------------------------------------
(* Bounds *)

MaxPatterns == 2        \* patterns given to collectFiles
MaxChats == 5           \* chats in a 'list chats' response

----------------------------------------------------------------------------
(* Values *)

\* JavaScript's undefined (a missing property, an unset environment variable)
Undefined == "<undefined>"

\* `${x}` in a template literal
Str(x) == IF x = Undefined THEN "undefined" ELSE x

\* if (x) on a string-or-undefined value: undefined and "" are falsy
Truthy(x) == x # Undefined /\ x # ""

ApiKeys == {"key_1", "key_2"}
EnvKey == "key_env"
\* process.env.V0_API_KEY: unset, set to the empty string, or set to a key
EnvValues == {Undefined, "", EnvKey}
ProjectIds == {"proj_1", "proj_2"}
ChatIds == {"chat_1", "missing_id"}
Messages == {"Build a dashboard"}

----------------------------------------------------------------------------
(* JSON text of the two files: a member list *)

NoText == <<>>
AbsentFile == [exists |-> FALSE, text |-> NoText]

RECURSIVE Member(_, _)
\* the value of member `name` in a JSON object text, Undefined when missing
Member(text, name) ==
    IF text = <<>> THEN Undefined
    ELSE IF Head(text)[1] = name THEN Head(text)[2]
    ELSE Member(Tail(text), name)

\* JSON.stringify of a V0Config: a property holding undefined is left out
StringifyConfig(config) ==
    IF config.apiKey = Undefined THEN <<>> ELSE << <<"apiKey", config.apiKey>> >>

\* JSON.parse of the config file, read as a V0Config
ParseConfig(text) == [apiKey |-> Member(text, "apiKey")]

StringifyLink(link) == << <<"projectId", link.projectId>> >>

ParseLink(text) == [projectId |-> Member(text, "projectId")]

\* readProjectLink returns null when the file does not exist
NullLink == [projectId |-> "<null>"]

----------------------------------------------------------------------------
(* config.ts: Credential & Link Store *)

readConfig(file) ==
    IF ~file.exists THEN [apiKey |-> Undefined] ELSE ParseConfig(file.text)

\* the file writeConfig leaves (it also creates the directory)
writeConfig(config) == [exists |-> TRUE, text |-> StringifyConfig(config)]

readProjectLink(file) ==
    IF ~file.exists THEN NullLink ELSE ParseLink(file.text)

writeProjectLink(projectId) ==
    [exists |-> TRUE, text |-> StringifyLink([projectId |-> projectId])]

\* a remove that leaves the file in place
removeNothing(file) == file

removeProjectLink(file) == IF file.exists THEN AbsentFile ELSE file

----------------------------------------------------------------------------
(* Errors: what withErrorHandling reads of a caught value *)

\* type = error?.error?.type, nested = error?.error?.message, top = error?.message
Err(type, nested, top) == [type |-> type, nested |-> nested, top |-> top]

NoError == Err("<none>", "<none>", "<none>")

\* new Error(message)
PlainError(message) == Err(Undefined, Undefined, message)

NoKeyMessage == "No API key found. Run 'v0 login' or set V0_API_KEY."
StreamMessage == "Unexpected stream response"

\* what a remote call (or the shell) can throw
RemoteErrors ==
    { Err("unauthorized_error", "Invalid API key", "HTTP 401"),
      Err("not_found_error", "Chat not found", "HTTP 404"),
      Err("not_found_error", Undefined, "HTTP 404"),
      Err("too_many_requests_error", "Slow down", "HTTP 429"),
      Err("payload_too_large_error", "Too big", "HTTP 413"),
      Err("internal_server_error", "Server exploded", "HTTP 500"),
      Err("internal_server_error", Undefined, "HTTP 500"),
      Err(Undefined, Undefined, "fetch failed"),
      Err(Undefined, Undefined, Undefined) }

UnauthorizedMessage == "Not authenticated. Run 'v0 login' or set V0_API_KEY."
RateLimitedMessage == "Rate limited. Try again shortly."
PayloadMessage == "Payload too large. Try reducing the number or size of files."

\* a ?? b
Coalesce(a, b) == IF a # Undefined THEN a ELSE b

\* the classification written in the implementation plan, without the
\* payload_too_large_error branch
ErrorMessageNoPayload(error) ==
    IF error.type = "unauthorized_error" THEN UnauthorizedMessage
    ELSE IF error.type = "not_found_error" THEN "Not found: " \o Str(error.nested)
    ELSE IF error.type = "too_many_requests_error" THEN RateLimitedMessage
    ELSE Coalesce(error.nested, Coalesce(error.top, "Unknown error"))

\* the message the catch block of withErrorHandling prints
ErrorMessage(error) ==
    IF error.type = "unauthorized_error" THEN UnauthorizedMessage
    ELSE IF error.type = "not_found_error" THEN "Not found: " \o Str(error.nested)
    ELSE IF error.type = "too_many_requests_error" THEN RateLimitedMessage
    ELSE IF error.type = "payload_too_large_error" THEN PayloadMessage
    ELSE Coalesce(error.nested, Coalesce(error.top, "Unknown error"))

----------------------------------------------------------------------------
(* files.ts: File Collector *)

\* A path is a sequence of tokens whose concatenation is the path string:
\* <<"repo", ".git", "/", "b.ts">> is "repo.git/b.ts".
SrcA == <<"src", "/", "a.ts">>
SrcB == <<"src", "/", "b.ts">>
NodeI == <<"node_modules", "/", "pkg", "/", "i.ts">>
GitH == <<".git", "/", "hooks", "/", "h.ts">>
RepoB == <<"repo", ".git", "/", "b.ts">>

\* the directory tree, in traversal order
Tree == <<SrcA, SrcB, NodeI, GitH, RepoB>>
TreeFiles == {Tree[i] : i \in 1..Len(Tree)}

\* A glob pattern is represented by the set of files of the tree it matches.
Patterns == SUBSET TreeFiles

\* glob.scan("."): the matching files, in traversal order
scan(pattern) == SelectSeq(Tree, LAMBDA f : f \in pattern)

\* String.prototype.includes
includes(s, needle) ==
    \E i \in 1..(Len(s) - Len(needle) + 1) :
        SubSeq(s, i, i + Len(needle) - 1) = needle

RECURSIVE Concat(_)
\* the string a token sequence spells
Concat(tokens) ==
    IF tokens = <<>> THEN "" ELSE Head(tokens) \o Concat(Tail(tokens))

\* Bun.file(file).text()
fileText(file) == "contents of " \o Concat(file)

\* the test that skips a scanned file
skipped(file) ==
    includes(file, <<"node_modules", "/">>) \/ includes(file, <<".git", "/">>)

RECURSIVE scanLoopNoSeen(_, _)
\* an inner loop that never consults the seen set
scanLoopNoSeen(found, acc) ==
    IF found = <<>> THEN acc
    ELSE LET file == Head(found) IN
         IF skipped(file)
         THEN scanLoopNoSeen(Tail(found), acc)
         ELSE scanLoopNoSeen(Tail(found),
                             [files |-> Append(acc.files,
                                               [name |-> file,
                                                content |-> fileText(file)]),
                              seen |-> acc.seen \cup {file}])

RECURSIVE scanLoop(_, _)
\* the inner loop over one pattern's scan; acc is [files, seen]
scanLoop(found, acc) ==
    IF found = <<>> THEN acc
    ELSE LET file == Head(found) IN
         IF skipped(file) \/ file \in acc.seen
         THEN scanLoop(Tail(found), acc)
         ELSE scanLoop(Tail(found),
                       [files |-> Append(acc.files,
                                         [name |-> file, content |-> fileText(file)]),
                        seen |-> acc.seen \cup {file}])

RECURSIVE patternLoop(_, _)
patternLoop(ps, acc) ==
    IF ps = <<>> THEN acc
    ELSE patternLoop(Tail(ps), scanLoop(scan(Head(ps)), acc))

collectFiles(ps) == patternLoop(ps, [files |-> <<>>, seen |-> {}]).files

----------------------------------------------------------------------------
(* One invocation *)

\* an absent option is <<>>, a given one is <<value>>
None == <<>>
Some(v) == <<v>>

Opts == [json |-> FALSE, favorites |-> FALSE, limit |-> None, project |-> TRUE,
         browser |-> TRUE, message |-> Undefined]

Start(cmd, env, arg, opts) ==
    [cmd |-> cmd, env |-> env, arg |-> arg, opts |-> opts, exit |-> 0,
     log |-> <<>>, error |-> NoError, clients |-> <<>>, calls |-> <<>>,
     fs |-> <<>>, shell |-> <<>>, received |-> <<>>, created |-> <<>>]

Line(stream, t, data) == [stream |-> stream, text |-> t, data |-> data]

consoleLog(r, t) == [r EXCEPT !.log = Append(@, Line("stdout", t, <<>>))]
consoleLogJSON(r, data) ==
    [r EXCEPT !.log = Append(@, Line("stdout", "json", data))]
consoleError(r, t) == [r EXCEPT !.log = Append(@, Line("stderr", t, <<>>))]

\* process.exit(1)
exit1(r) == [r EXCEPT !.exit = 1]

\* one access to a file
touch(r, what) == [r EXCEPT !.fs = Append(@, what)]

\* one command run through Bun.$
sh(r, command) == [r EXCEPT !.shell = Append(@, command)]

Stdout(r) == SelectSeq(r.log, LAMBDA l : l.stream = "stdout")
Stderr(r) == SelectSeq(r.log, LAMBDA l : l.stream = "stderr")

\* the catch block of withErrorHandling
catch(r, error) ==
    exit1(consoleError([r EXCEPT !.error = error], ErrorMessage(error)))

\* a remote request
Request(op, key, arg) ==
    [op |-> op, key |-> key, arg |-> arg, projectId |-> Undefined,
     limit |-> None, favorite |-> FALSE, files |-> <<>>]

call(r, request) == [r EXCEPT !.calls = Append(@, request)]

\* the remote service returned the chat it created and now holds
result(r, id) == [r EXCEPT !.created = Append(@, id)]

\* what a remote call does: returns, returns a stream, or throws
Returned == [kind |-> "ok", error |-> NoError]
Streamed == [kind |-> "stream", error |-> NoError]
Threw(e) == [kind |-> "error", error |-> e]
Outcomes == {Returned} \cup {Threw(e) : e \in RemoteErrors}
StreamOutcomes == Outcomes \cup {Streamed}

----------------------------------------------------------------------------
(* config.ts: API Client Factory *)

\* a resolution that prefers the stored key
resolveConfigFirst(env, file) ==
    IF Truthy(readConfig(file).apiKey)
    THEN [ok |-> TRUE, key |-> readConfig(file).apiKey, read |-> TRUE]
    ELSE IF Truthy(env) THEN [ok |-> TRUE, key |-> env, read |-> TRUE]
    ELSE [ok |-> FALSE, key |-> Undefined, read |-> TRUE]

\* ok: a key was found; read: the config file was read
resolveApiKeyWithConfig(env, file) ==
    IF Truthy(env) THEN [ok |-> TRUE, key |-> env, read |-> FALSE]
    ELSE LET config == readConfig(file) IN
         IF Truthy(config.apiKey)
         THEN [ok |-> TRUE, key |-> config.apiKey, read |-> TRUE]
         ELSE [ok |-> FALSE, key |-> Undefined, read |-> TRUE]

\* a getClient that builds a client even when no key was found
getClientNoThrow(r, file) ==
    LET k == resolveApiKeyWithConfig(r.env, file)
        r1 == IF k.read THEN touch(r, "config.read") ELSE r
    IN  [r1 EXCEPT !.clients = Append(@, k.key)]

\* getClient inside a wrapped handler: the client is constructed with the
\* resolved key, or the thrown error reaches the catch block
getClient(r, file) ==
    LET k == resolveApiKeyWithConfig(r.env, file)
        r1 == IF k.read THEN touch(r, "config.read") ELSE r
    IN  IF k.ok THEN [r1 EXCEPT !.clients = Append(@, k.key)]
        ELSE catch(r1, PlainError(NoKeyMessage))

\* the key of the client a handler holds
client(r) == r.clients[Len(r.clients)]

----------------------------------------------------------------------------
(* index.ts: the command handlers.  Each operator is the run of one wrapped *)
(* handler from the file system w it finds: it gives the record of the run  *)
(* and the file system it leaves.                                           *)

\* the files the program reads and writes
World(dir, config, link) == [dir |-> dir, config |-> config, link |-> link]

Result(r, w) == [r |-> r, w |-> w]

\* what the user types at the login prompt, as tokens
Answers == { <<>>, <<" ">>, <<"key_1">>, <<" ", "key_1", " ">>, <<"key_2">> }

RECURSIVE trimStart(_)
trimStart(s) ==
    IF s # <<>> /\ Head(s) = " " THEN trimStart(Tail(s)) ELSE s

RECURSIVE trimEnd(_)
trimEnd(s) ==
    IF s # <<>> /\ s[Len(s)] = " " THEN trimEnd(SubSeq(s, 1, Len(s) - 1)) ELSE s

\* answer.trim()
trim(answer) == Concat(trimEnd(trimStart(answer)))

\* config.apiKey = apiKey
setApiKey(config, apiKey) == [config EXCEPT !.apiKey = apiKey]

\* readConfig, set the key, writeConfig
storeKey(r, w, apiKey) ==
    Result(touch(touch(r, "config.read"), "config.write"),
           [w EXCEPT !.dir = TRUE,
                     !.config = writeConfig(setApiKey(readConfig(w.config), apiKey))])

\* a login that stores the key before validating it
loginStoresFirst(env, answer, out, w) ==
    LET apiKey == trim(answer)
        r0 == Start("login", env, apiKey, Opts)
    IN  IF ~Truthy(apiKey)
        THEN Result(exit1(consoleError(r0, "API key cannot be empty")), w)
        ELSE LET s == storeKey(r0, w, apiKey)
                 r1 == call([s.r EXCEPT !.clients = Append(@, apiKey)],
                            Request("user.get", apiKey, Undefined))
             IN  IF out.kind = "error" THEN Result(catch(r1, out.error), s.w)
                 ELSE Result(consoleLog(r1, "Successfully authenticated!"), s.w)

\* the run of the login handler
login(env, answer, out, w) ==
    LET apiKey == trim(answer)
        r0 == Start("login", env, apiKey, Opts)
    IN  IF ~Truthy(apiKey)
        THEN Result(exit1(consoleError(r0, "API key cannot be empty")), w)
        ELSE LET r1 == call([r0 EXCEPT !.clients = Append(@, apiKey)],
                            Request("user.get", apiKey, Undefined))
             IN  IF out.kind = "error" THEN Result(catch(r1, out.error), w)
                 ELSE LET s == storeKey(r1, w, apiKey) IN
                      Result(consoleLog(s.r, "Successfully authenticated!"), s.w)

\* a logout that writes the config back unchanged
keepApiKey(config) == config

\* delete config.apiKey
deleteApiKey(config) == [config EXCEPT !.apiKey = Undefined]

\* the run of the logout handler
logout(env, w) ==
    LET r0 == Start("logout", env, Undefined, Opts)
        config == readConfig(w.config)
        r1 == touch(touch(r0, "config.read"), "config.write")
    IN  Result(consoleLog(r1, "Logged out successfully"),
               [w EXCEPT !.dir = TRUE,
                         !.config = writeConfig(deleteApiKey(config))])

\* the user the remote service returns
User(name) == [id |-> "user_1", email |-> "user@example.com", name |-> name]
UserNames == {Undefined, "Ada"}

\* a whoami that stores the key it authenticated with
whoamiCachesKey(env, json, out, user, w) ==
    LET r0 == Start("whoami", env, Undefined, [Opts EXCEPT !.json = json])
        r1 == getClient(r0, w.config)
    IN  IF r1.exit = 1 THEN Result(r1, w)
        ELSE LET r2 == call(r1, Request("user.get", client(r1), Undefined)) IN
             IF out.kind = "error" THEN Result(catch(r2, out.error), w)
             ELSE Result(consoleLogJSON(r2, <<user>>),
                         storeKey(r2, w, client(r2)).w)

\* the run of the whoami handler
whoami(env, json, out, user, w) ==
    LET r0 == Start("whoami", env, Undefined, [Opts EXCEPT !.json = json])
        r1 == getClient(r0, w.config)
    IN  IF r1.exit = 1 THEN Result(r1, w)
        ELSE LET r2 == call(r1, Request("user.get", client(r1), Undefined)) IN
             IF out.kind = "error" THEN Result(catch(r2, out.error), w)
             ELSE IF json THEN Result(consoleLogJSON(r2, <<user>>), w)
             ELSE Result(consoleLog(consoleLog(consoleLog(r2,
                            "ID: " \o user.id),
                            "Email: " \o user.email),
                            "Name: " \o Coalesce(user.name, "N/A")), w)

\* an attachment that ignores --no-project
attachedProjectAlways(project, link) ==
    IF link # NullLink THEN link.projectId ELSE Undefined

\* the project id a handler attaches: the linked one unless --no-project
attachedProject(project, link) ==
    IF project # FALSE /\ link # NullLink THEN link.projectId ELSE Undefined

\* a handler that reads the link file once to test it and once to use it
readLinkTwice(r, project) ==
    IF project # FALSE THEN touch(touch(r, "link.read"), "link.read") ELSE r

\* reading the link file, unless --no-project
readLinkUnlessDisabled(r, project) ==
    IF project # FALSE THEN touch(r, "link.read") ELSE r

NewChatId == "chat_new"
ChatUrl(id) == "https://v0.dev/chat/" \o id

\* the run of the chat create handler
chatCreate(env, message, project, json, out, w) ==
    LET r0 == Start("chat create", env, message,
                    [Opts EXCEPT !.json = json, !.project = project])
        r1 == getClient(r0, w.config)
    IN  IF r1.exit = 1 THEN Result(r1, w)
        ELSE LET r2 == readLinkUnlessDisabled(r1, project)
                 projectId == attachedProject(project, readProjectLink(w.link))
                 r3 == call(r2, [Request("chats.create", client(r2), message)
                                   EXCEPT !.projectId = projectId])
             IN  IF out.kind = "error" THEN Result(catch(r3, out.error), w)
                 ELSE IF out.kind = "stream"
                      THEN Result(catch(r3, PlainError(StreamMessage)), w)
                 ELSE IF json
                      THEN Result(consoleLogJSON(result(r3, NewChatId),
                              <<[id |-> NewChatId, url |-> ChatUrl(NewChatId)]>>), w)
                 ELSE Result(consoleLog(consoleLog(result(r3, NewChatId),
                                "Chat created: " \o NewChatId),
                                ChatUrl(NewChatId)), w)

\* a chat of the remote service; the favorite flag is the fixture's choice
Chat(i, favorite) ==
    [id |-> "chat_" \o ToString(i), name |-> "Chat " \o ToString(i),
     favorite |-> favorite,
     privacy |-> IF i % 2 = 1 THEN "private" ELSE "public",
     createdAt |-> "2/10/2026"]

\* a response without a data property
NoData == [hasData |-> FALSE, data |-> <<>>]

\* what 'list chats' can return: up to MaxChats chats, or no data property
Responses ==
    UNION { { [hasData |-> TRUE, data |-> [i \in 1..n |-> Chat(i, f[i])]] :
                f \in [1..n -> BOOLEAN] } : n \in 0..MaxChats }
    \cup { NoData }

\* --limit as given: absent, 0 or 2
Limits == {None, Some(0), Some(2)}

\* a query that leaves the favorites filter out
queryOptsNoFavorite(favorites, limit, key) ==
    [Request("chats.find", key, Undefined) EXCEPT
        !.limit = IF limit # None /\ limit[1] # 0 THEN limit ELSE None]

\* queryOpts of chat list: each option is passed only when it is truthy
queryOpts(favorites, limit, key) ==
    [Request("chats.find", key, Undefined) EXCEPT
        !.limit = IF limit # None /\ limit[1] # 0 THEN limit ELSE None,
        !.favorite = favorites]

\* the line chat list prints for one chat
chatLine(chat) ==
    chat.id \o " - " \o chat.name
        \o (IF chat.favorite THEN " *" ELSE "")
        \o (IF chat.privacy = "private" THEN " #" ELSE "")
        \o " (" \o chat.createdAt \o ")"

RECURSIVE printChats(_, _)
printChats(r, chats) ==
    IF chats = <<>> THEN r
    ELSE printChats([r EXCEPT !.log = Append(@, Line("stdout",
                                        chatLine(Head(chats)), <<Head(chats)>>))],
                    Tail(chats))

\* response.data || []
chatsOf(response) ==
    IF response.hasData THEN response.data ELSE <<>>

\* the run of the chat list handler
chatList(env, favorites, limit, json, out, response, w) ==
    LET r0 == Start("chat list", env, Undefined,
                    [Opts EXCEPT !.json = json, !.favorites = favorites,
                                 !.limit = limit])
        r1 == getClient(r0, w.config)
    IN  IF r1.exit = 1 THEN Result(r1, w)
        ELSE LET r2 == call(r1, queryOpts(favorites, limit, client(r1))) IN
             IF out.kind = "error" THEN Result(catch(r2, out.error), w)
             ELSE LET chats == chatsOf(response)
                      r3 == [r2 EXCEPT !.received = response.data]
                  IN  IF json THEN Result(consoleLogJSON(r3, chats), w)
                      ELSE IF Len(chats) = 0
                           THEN Result(consoleLog(r3, "No chats found"), w)
                      ELSE Result(printChats(r3, chats), w)

\* what Bun.$ throws when the command exits non-zero
ShellError == Err(Undefined, Undefined, "Failed with exit code 1")
ShellOutcomes == {Returned, Threw(ShellError)}

\* the run of the chat open handler
chatOpen(env, chatId, browser, out, w) ==
    LET r0 == Start("chat open", env, chatId, [Opts EXCEPT !.browser = browser])
        r1 == consoleLog(r0, ChatUrl(chatId))
    IN  IF browser = FALSE THEN Result(r1, w)
        ELSE LET r2 == sh(r1, "open " \o ChatUrl(chatId)) IN
             IF out.kind = "error" THEN Result(catch(r2, out.error), w)
             ELSE Result(r2, w)

\* the run of the chat delete handler
chatDelete(env, chatId, out, w) ==
    LET r0 == Start("chat delete", env, chatId, Opts)
        r1 == getClient(r0, w.config)
    IN  IF r1.exit = 1 THEN Result(r1, w)
        ELSE LET r2 == call(r1, Request("chats.delete", client(r1), chatId)) IN
             IF out.kind = "error" THEN Result(catch(r2, out.error), w)
             ELSE Result(consoleLog(r2, "Chat " \o chatId \o " deleted"), w)

\* a chat init that deletes the chat again when the follow-up message fails
chatInitCompensates(r, found, message, project, json, outInit, outMsg, w) ==
    LET r2 == readLinkUnlessDisabled(r, project)
        projectId == attachedProject(project, readProjectLink(w.link))
        r3 == call(r2, [Request("chats.init", client(r2), Undefined)
                          EXCEPT !.files = found,
                                 !.projectId = IF Truthy(projectId)
                                               THEN projectId ELSE Undefined])
        undo(q) == [call(q, Request("chats.delete", client(q), NewChatId))
                        EXCEPT !.created = <<>>]
        r4 == IF Truthy(message)
              THEN call(result(r3, NewChatId),
                        Request("chats.sendMessage", client(r3), NewChatId))
              ELSE result(r3, NewChatId)
    IN  IF outInit.kind = "error" THEN Result(catch(r3, outInit.error), w)
        ELSE IF outInit.kind = "stream"
        THEN Result(catch(r3, PlainError(StreamMessage)), w)
        ELSE IF Truthy(message) /\ outMsg.kind = "error"
        THEN Result(catch(undo(r4), outMsg.error), w)
        ELSE IF Truthy(message) /\ outMsg.kind = "stream"
        THEN Result(catch(undo(r4), PlainError(StreamMessage)), w)
        ELSE IF json
        THEN Result(consoleLogJSON(r4,
                        <<[id |-> NewChatId, url |-> ChatUrl(NewChatId)]>>), w)
        ELSE Result(consoleLog(consoleLog(consoleLog(r4,
                        "Chat initialized: " \o NewChatId),
                        "Files attached: " \o ToString(Len(found))),
                        ChatUrl(NewChatId)), w)

\* chat init from the point where it holds a client (r: the run so far)
chatInitWithClient(r, found, message, project, json, outInit, outMsg, w) ==
    LET r2 == readLinkUnlessDisabled(r, project)
        projectId == attachedProject(project, readProjectLink(w.link))
        r3 == call(r2, [Request("chats.init", client(r2), Undefined)
                          EXCEPT !.files = found,
                                 !.projectId = IF Truthy(projectId)
                                               THEN projectId ELSE Undefined])
        r4 == IF Truthy(message)
              THEN call(result(r3, NewChatId),
                        Request("chats.sendMessage", client(r3), NewChatId))
              ELSE result(r3, NewChatId)
    IN  IF outInit.kind = "error" THEN Result(catch(r3, outInit.error), w)
        ELSE IF outInit.kind = "stream"
        THEN Result(catch(r3, PlainError(StreamMessage)), w)
        ELSE IF Truthy(message) /\ outMsg.kind = "error"
        THEN Result(catch(r4, outMsg.error), w)
        ELSE IF Truthy(message) /\ outMsg.kind = "stream"
        THEN Result(catch(r4, PlainError(StreamMessage)), w)
        ELSE IF json
        THEN Result(consoleLogJSON(r4,
                        <<[id |-> NewChatId, url |-> ChatUrl(NewChatId)]>>), w)
        ELSE Result(consoleLog(consoleLog(consoleLog(r4,
                        "Chat initialized: " \o NewChatId),
                        "Files attached: " \o ToString(Len(found))),
                        ChatUrl(NewChatId)), w)

\* a chat init that acquires the client before looking for files
chatInitClientFirst(env, ps, message, project, json, outInit, outMsg, w) ==
    LET r0 == Start("chat init", env, Undefined,
                    [Opts EXCEPT !.json = json, !.project = project,
                                 !.message = message])
        found == collectFiles(ps)
        r1 == getClient(r0, w.config)
    IN  IF r1.exit = 1 THEN Result(r1, w)
        ELSE IF Len(ps) = 0
        THEN Result(exit1(consoleError(r1, "No file patterns provided")), w)
        ELSE IF Len(found) = 0
        THEN Result(exit1(consoleError(r1, "No files found matching patterns")), w)
        ELSE chatInitWithClient(r1, found, message, project, json,
                                outInit, outMsg, w)

\* the run of the chat init handler
chatInit(env, ps, message, project, json, outInit, outMsg, w) ==
    LET r0 == Start("chat init", env, Undefined,
                    [Opts EXCEPT !.json = json, !.project = project,
                                 !.message = message])
        found == collectFiles(ps)
    IN  IF Len(ps) = 0
        THEN Result(exit1(consoleError(r0, "No file patterns provided")), w)
        ELSE IF Len(found) = 0
        THEN Result(exit1(consoleError(r0, "No files found matching patterns")), w)
        ELSE LET r1 == getClient(r0, w.config) IN
             IF r1.exit = 1 THEN Result(r1, w)
             ELSE chatInitWithClient(r1, found, message, project, json,
                                     outInit, outMsg, w)

\* a link that writes the file before the project is validated
linkWritesFirst(env, projectId, out, w) ==
    LET r0 == Start("link", env, projectId, Opts)
        r1 == getClient(r0, w.config)
        w1 == [w EXCEPT !.link = writeProjectLink(projectId)]
    IN  IF r1.exit = 1 THEN Result(r1, w)
        ELSE LET r2 == call(touch(r1, "link.write"),
                            Request("projects.get", client(r1), projectId)) IN
             IF out.kind = "error" THEN Result(catch(r2, out.error), w1)
             ELSE Result(consoleLog(r2, "Linked to project: " \o projectId), w1)

\* the run of the link handler
link(env, projectId, out, w) ==
    LET r0 == Start("link", env, projectId, Opts)
        r1 == getClient(r0, w.config)
    IN  IF r1.exit = 1 THEN Result(r1, w)
        ELSE LET r2 == call(r1, Request("projects.get", client(r1), projectId)) IN
             IF out.kind = "error" THEN Result(catch(r2, out.error), w)
             ELSE Result(consoleLog(touch(r2, "link.write"),
                                    "Linked to project: " \o projectId),
                         [w EXCEPT !.link = writeProjectLink(projectId)])

\* the run of the unlink handler
unlink(env, w) ==
    LET r0 == touch(Start("unlink", env, Undefined, Opts), "link.remove")
        r1 == IF w.link.exists THEN sh(r0, "rm .v0") ELSE r0
    IN  Result(consoleLog(r1, "Project link removed"),
               [w EXCEPT !.link = removeProjectLink(w.link)])

----------------------------------------------------------------------------
(* The state machine: any sequence of invocations *)

\* every list of at most MaxPatterns patterns
PatternLists == UNION { [1..n -> Patterns] : n \in 0..MaxPatterns }

\* the pattern lists chat init is run with
CliPatternLists ==
    { <<>>, <<{}>>, <<{NodeI, GitH}>>, <<{RepoB}>>, <<{SrcA}>>,
      <<{SrcA, NodeI}, {SrcA, RepoB}>> }

\* --message as given
MessageOpts == {Undefined, "Review these files"}

W == World(configDir, configFile, linkFile)

\* login, logout, whoami in a row, none with the environment variable set
NextAuthSeq(r) ==
    IF r.env # Undefined THEN 0
    ELSE IF r.cmd = "login" /\ r.exit = 0 THEN 1
    ELSE IF authSeq = 1 /\ r.cmd = "logout" /\ r.exit = 0 THEN 2
    ELSE IF authSeq = 2 /\ r.cmd = "whoami" THEN 3
    ELSE 0

\* the last write or remove of the link file
NextLinkOp(r) ==
    IF \E i \in 1..Len(r.fs) : r.fs[i] = "link.write"
    THEN [op |-> "write", projectId |-> r.arg]
    ELSE IF \E i \in 1..Len(r.fs) : r.fs[i] = "link.remove"
    THEN [op |-> "remove", projectId |-> Undefined]
    ELSE lastLinkOp

NoRun == Start("none", Undefined, Undefined, Opts)

\* no process is running: the tool is used one invocation at a time
Idle == run = NoRun

\* the invocation ran as res records
Apply(res) ==
    /\ Idle
    /\ run' = res.r
    /\ configDir' = res.w.dir
    /\ configFile' = res.w.config
    /\ linkFile' = res.w.link
    /\ authSeq' = NextAuthSeq(res.r)
    /\ lastLinkOp' = NextLinkOp(res.r)

Init ==
    /\ configDir = FALSE
    /\ configFile = AbsentFile
    /\ linkFile = AbsentFile
    /\ run = NoRun
    /\ patterns = <<>>
    /\ files = <<>>
    /\ collected = FALSE
    /\ authSeq = 0
    /\ lastLinkOp = [op |-> "none", projectId |-> Undefined]

Login ==
    \E env \in EnvValues, answer \in Answers, out \in Outcomes :
        /\ Apply(login(env, answer, out, W))
        /\ UNCHANGED <<patterns, files, collected>>

Logout ==
    \E env \in EnvValues :
        /\ Apply(logout(env, W))
        /\ UNCHANGED <<patterns, files, collected>>

Whoami ==
    \E env \in EnvValues, json \in BOOLEAN, out \in Outcomes, name \in UserNames :
        /\ Apply(whoami(env, json, out, User(name), W))
        /\ UNCHANGED <<patterns, files, collected>>

ChatCreate ==
    \E env \in EnvValues, message \in Messages, project \in BOOLEAN,
       json \in BOOLEAN, out \in StreamOutcomes :
        /\ Apply(chatCreate(env, message, project, json, out, W))
        /\ UNCHANGED <<patterns, files, collected>>

ChatList ==
    \E env \in EnvValues, favorites \in BOOLEAN, limit \in Limits,
       json \in BOOLEAN, out \in Outcomes :
      \E response \in IF out = Returned THEN Responses ELSE {NoData} :
        /\ Apply(chatList(env, favorites, limit, json, out, response, W))
        /\ UNCHANGED <<patterns, files, collected>>

ChatOpen ==
    \E env \in EnvValues, chatId \in ChatIds, browser \in BOOLEAN,
       out \in ShellOutcomes :
        /\ Apply(chatOpen(env, chatId, browser, out, W))
        /\ UNCHANGED <<patterns, files, collected>>

ChatDelete ==
    \E env \in EnvValues, chatId \in ChatIds, out \in Outcomes :
        /\ Apply(chatDelete(env, chatId, out, W))
        /\ UNCHANGED <<patterns, files, collected>>

ChatInit ==
    \E env \in EnvValues, ps \in CliPatternLists, message \in MessageOpts,
       project \in BOOLEAN, json \in BOOLEAN, outInit \in StreamOutcomes :
      \E outMsg \in IF outInit = Returned /\ Truthy(message)
                     THEN StreamOutcomes ELSE {Returned} :
        /\ Apply(chatInit(env, ps, message, project, json, outInit, outMsg, W))
        /\ patterns' = ps
        /\ files' = IF Len(ps) = 0 THEN <<>> ELSE collectFiles(ps)
        /\ collected' = (Len(ps) # 0)

Link ==
    \E env \in EnvValues, projectId \in ProjectIds, out \in Outcomes :
        /\ Apply(link(env, projectId, out, W))
        /\ UNCHANGED <<patterns, files, collected>>

Unlink ==
    \E env \in EnvValues :
        /\ Apply(unlink(env, W))
        /\ UNCHANGED <<patterns, files, collected>>

\* the process exits: its record and the files it collected are gone
Exit ==
    /\ ~Idle
    /\ run' = NoRun
    /\ patterns' = <<>>
    /\ files' = <<>>
    /\ collected' = FALSE
    /\ UNCHANGED <<configDir, configFile, linkFile, authSeq, lastLinkOp>>

Next ==
    \/ Login
    \/ Logout
    \/ Whoami
    \/ ChatCreate
    \/ ChatList
    \/ ChatOpen
    \/ ChatDelete
    \/ ChatInit
    \/ Link
    \/ Unlink
    \/ Exit

Spec == Init /\ [][Next]_vars

----------------------------------------------------------------------------
(* The file collector on its own: every pattern list within the bound *)

InitFiles ==
    /\ configDir = FALSE
    /\ configFile = AbsentFile
    /\ linkFile = AbsentFile
    /\ run = NoRun
    /\ patterns \in PatternLists
    /\ files = <<>>
    /\ collected = FALSE
    /\ authSeq = 0
    /\ lastLinkOp = [op |-> "none", projectId |-> Undefined]

CollectFiles ==
    /\ ~collected
    /\ files' = collectFiles(patterns)
    /\ collected' = TRUE
    /\ UNCHANGED <<configDir, configFile, linkFile, run, patterns, authSeq,
                   lastLinkOp>>

NextFiles == CollectFiles

SpecFiles == InitFiles /\ [][NextFiles]_vars

----------------------------------------------------------------------------
(* Properties *)

\* the API key the config file holds, Undefined when it holds none
StoredKey(file) ==
    IF file.exists THEN Member(file.text, "apiKey") ELSE Undefined

\* the invocation reached getClient
UsesGetClient(r, found) ==
    \/ r.cmd \in {"whoami", "chat create", "chat list", "chat delete", "link"}
    \/ r.cmd = "chat init" /\ Len(found) > 0

ErrLine(t) == Line("stderr", t, <<>>)

\* the invocation failed because no API key was found: nothing was built
\* or sent
NoKeyFailure(r) ==
    /\ r.exit = 1
    /\ r.log = <<ErrLine(NoKeyMessage)>>
    /\ r.clients = <<>>
    /\ r.calls = <<>>

\* C1 as stated: the key handed to the client is the environment variable's
\* value whenever the variable is set, else the stored key, else resolution
\* fails with the no-API-key error and builds no client; the stored config is
\* never modified.
C1_EnvWinsWheneverSet ==
    [][ (Idle /\ UsesGetClient(run', files')) =>
          /\ configFile' = configFile /\ configDir' = configDir
          /\ IF run'.env # Undefined THEN run'.clients = <<run'.env>>
             ELSE IF StoredKey(configFile) # Undefined
                  THEN run'.clients = <<StoredKey(configFile)>>
             ELSE NoKeyFailure(run') ]_vars

\* C1 amended: the key handed to the client is the environment variable's
\* value whenever the variable is set to a non-empty string, else the stored
\* key when a non-empty one is stored, else resolution fails with the
\* no-API-key error and builds no client; the stored config is never modified.
C1_NonEmptyEnvWins ==
    [][ (Idle /\ UsesGetClient(run', files')) =>
          /\ configFile' = configFile /\ configDir' = configDir
          /\ IF run'.env # Undefined /\ run'.env # ""
             THEN run'.clients = <<run'.env>>
             ELSE IF StoredKey(configFile) # Undefined /\ StoredKey(configFile) # ""
                  THEN run'.clients = <<StoredKey(configFile)>>
             ELSE NoKeyFailure(run') ]_vars

\* C1 witness: the variable is set to the empty string and the client got the
\* stored key
C1_Witness ==
    /\ run.cmd = "whoami"
    /\ run.env = ""
    /\ run.clients = <<"key_1">>
    /\ StoredKey(configFile) = "key_1"

AuthMessages == {NoKeyMessage, UnauthorizedMessage}

\* the invocation ended with an authentication message and exit code 1
AuthFailure(r) ==
    /\ r.exit = 1
    /\ Len(Stderr(r)) = 1
    /\ Stderr(r)[1].text \in AuthMessages

NoCredential == StoredKey(configFile) = Undefined

\* C2 as stated: every command other than login, run with no stored key and
\* no environment variable, ends with an authentication message and exit 1.
C2_EveryCommandNeedsKey ==
    [][ (Idle /\ NoCredential /\ run'.env = Undefined /\ run'.cmd # "login"
          /\ run'.cmd # "none")
          => AuthFailure(run') ]_vars

\* C2 amended: whoami, chat create, chat list, chat delete, link, and chat
\* init given patterns that yield at least one file, run with no stored key
\* and no environment variable, end with the no-API-key message and exit 1;
\* logout and unlink exit 0, chat open ends without an authentication
\* message, and chat init that finds no file exits 1 with its own message.
C2_ClientCommandsNeedKey ==
    [][ (Idle /\ NoCredential /\ run'.env = Undefined) =>
          /\ UsesGetClient(run', files') => NoKeyFailure(run')
          /\ run'.cmd \in {"logout", "unlink"} => run'.exit = 0
          /\ run'.cmd = "chat open" => ~AuthFailure(run')
          /\ (run'.cmd = "chat init" /\ Len(files') = 0) =>
                /\ run'.exit = 1
                /\ Stderr(run')[1].text
                     \in {"No file patterns provided",
                          "No files found matching patterns"} ]_vars

\* C2 witness: link run without any credential
C2_Witness ==
    /\ run.cmd = "link"
    /\ run.env = Undefined
    /\ NoCredential
    /\ NoKeyFailure(run)

\* the login did not validate a key
LoginFailed(r) ==
    r.cmd = "login" /\ (r.arg = "" \/ r.error # NoError)

\* C3: a login whose entered key is empty or whose 'get current user' call
\* fails leaves the stored config as it was and exits 1.
C3_FailedLoginStoresNothing ==
    [][ (Idle /\ LoginFailed(run')) =>
          /\ configFile' = configFile
          /\ configDir' = configDir
          /\ run'.exit = 1 ]_vars

\* C3 witness: a key was stored, and a login with another key was rejected
C3_Witness ==
    /\ run.cmd = "login"
    /\ run.arg = "key_2"
    /\ run.error.type = "unauthorized_error"
    /\ StoredKey(configFile) = "key_1"

\* whoami as it fails on a machine where no credential was ever stored
NeverStoredWhoami(json) ==
    whoami(Undefined, json, Returned, User(Undefined),
           World(FALSE, AbsentFile, AbsentFile)).r

\* C4: with no environment variable, whoami after a successful login and a
\* logout fails as it does when no credential was ever stored: no client, no
\* remote call, exit code 1.
C4_LoginLogoutWhoami ==
    (authSeq = 3 /\ ~Idle) =>
        /\ run.cmd = "whoami"
        /\ run = NeverStoredWhoami(run.opts.json)
        /\ run.clients = <<>>
        /\ run.calls = <<>>
        /\ run.exit = 1

\* C4 witness: the whoami that ends the sequence has run
C4_Witness == authSeq = 3 /\ run.cmd = "whoami" /\ configFile.exists

\* the project id the link file holds, Undefined when there is no file
LinkedProject(file) ==
    IF file.exists THEN Member(file.text, "projectId") ELSE Undefined

\* the invocation called 'get project by id' for id, and the call returned
ProjectValidated(r, id) ==
    /\ r.error = NoError
    /\ \E i \in 1..Len(r.calls) :
          r.calls[i].op = "projects.get" /\ r.calls[i].arg = id

\* C5: link writes the link file only after 'get project by id' returned for
\* that id; when the call fails or no credential is found, the link file
\* is left as it was and the exit code is 1.
C5_LinkValidatesFirst ==
    [][ (Idle /\ run'.cmd = "link") =>
          /\ (linkFile' # linkFile \/ run'.exit = 0) =>
                /\ ProjectValidated(run', run'.arg)
                /\ LinkedProject(linkFile') = run'.arg
          /\ ~ProjectValidated(run', run'.arg) =>
                /\ linkFile' = linkFile
                /\ run'.exit = 1 ]_vars

\* C5 witness: the directory is linked, and a link to another project failed
\* at the remote call
C5_Witness ==
    /\ run.cmd = "link"
    /\ run.arg = "proj_2"
    /\ run.error.type = "not_found_error"
    /\ run.exit = 1
    /\ LinkedProject(linkFile) = "proj_1"

\* what read-project-link returns after the operations so far
LinkReadsLastWrite ==
    readProjectLink(linkFile) =
        IF lastLinkOp.op = "write"
        THEN [projectId |-> lastLinkOp.projectId]
        ELSE NullLink

\* C6: after any sequence of writes and removes of the link file, reading it
\* returns the id of the most recent write if no remove followed, and absent
\* if the last operation was a remove or nothing was written; a remove of an
\* absent link changes nothing and does not fail.
C6_LinkStore ==
    [][ /\ LinkReadsLastWrite'
        /\ (Idle /\ run'.cmd = "unlink" /\ ~linkFile.exists) =>
              /\ linkFile' = linkFile
              /\ run'.shell = <<>>
              /\ run'.exit = 0 ]_vars

\* C6 witness: a link was written, removed, written again with another id,
\* and reads back as that id
C6_Witness ==
    /\ run.cmd = "link"
    /\ run.exit = 0
    /\ run.arg = "proj_2"
    /\ readProjectLink(linkFile) = [projectId |-> "proj_2"]
    /\ lastLinkOp = [op |-> "write", projectId |-> "proj_2"]

\* C7: chat init given no pattern, or patterns that yield no file, exits 1
\* without reading the config, building a client or calling the remote
\* service, whether or not a credential is available.
C7_InitFailsFast ==
    (run.cmd = "chat init" /\ (Len(patterns) = 0 \/ Len(files) = 0)) =>
        /\ run.exit = 1
        /\ run.fs = <<>>
        /\ run.clients = <<>>
        /\ run.calls = <<>>
        /\ Len(Stderr(run)) = 1

\* C7 witness: the patterns match only excluded files while both the
\* environment variable and a stored key are available
C7_Witness ==
    /\ run.cmd = "chat init"
    /\ patterns = <<{NodeI, GitH}>>
    /\ files = <<>>
    /\ run.env = EnvKey
    /\ StoredKey(configFile) = "key_1"
    /\ run.exit = 1

\* the path has a directory named node_modules or .git
HasExcludedSegment(file) ==
    \E i \in 1..(Len(file) - 1) :
        /\ file[i] \in {"node_modules", ".git"}
        /\ file[i + 1] = "/"
        /\ (i = 1 \/ file[i - 1] = "/")

\* the paths the patterns match
Matched(ps) == UNION {ps[i] : i \in 1..Len(ps)}

ReturnedNames(fs) == {fs[i].name : i \in 1..Len(fs)}

\* C8: collectFiles returns no entry whose name has a node_modules/ or .git/
\* path segment, and returns every matched path that has neither segment.
C8_ExcludesExactlySegments ==
    collected =>
        /\ \A f \in ReturnedNames(files) : ~HasExcludedSegment(f)
        /\ \A f \in Matched(patterns) :
              ~HasExcludedSegment(f) => f \in ReturnedNames(files)

\* the message the classification table gives for a caught error
Classified(error) ==
    CASE error.type = "not_found_error" -> "Not found: " \o Str(error.nested)
      [] error.type = "unauthorized_error" ->
            "Not authenticated. Run 'v0 login' or set V0_API_KEY."
      [] error.type = "too_many_requests_error" ->
            "Rate limited. Try again shortly."
      [] error.type = "payload_too_large_error" ->
            "Payload too large. Try reducing the number or size of files."
      [] OTHER ->
            IF error.nested # Undefined THEN error.nested
            ELSE IF error.top # Undefined THEN error.top
            ELSE "Unknown error"

\* C9: whatever the command, a caught error prints exactly one message, the
\* one its classification gives, as the last thing printed, and the exit
\* code is 1.
C9_UniformClassification ==
    run.error # NoError =>
        /\ run.exit = 1
        /\ Stderr(run) = <<ErrLine(Classified(run.error))>>
        /\ run.log[Len(run.log)] = ErrLine(Classified(run.error))

\* C9 witness: chat delete of a missing id met a 'not found' error
C9_Witness ==
    /\ run.cmd = "chat delete"
    /\ run.arg = "missing_id"
    /\ run.error = Err("not_found_error", "Chat not found", "HTTP 404")
    /\ Stderr(run) = <<ErrLine("Not found: Chat not found")>>
    /\ run.exit = 1

RECURSIVE Flatten(_)
Flatten(lines) ==
    IF lines = <<>> THEN <<>> ELSE Head(lines).data \o Flatten(Tail(lines))

\* the chats an invocation of chat list put on stdout
Listed(r) == Flatten(Stdout(r))

Favorited(chats) == SelectSeq(chats, LAMBDA c : c.favorite)

\* chat list --favorites --limit 2 got 5 chats, 2 of them favorited
FixtureCase(r) ==
    /\ r.cmd = "chat list"
    /\ r.opts.favorites
    /\ r.opts.limit = Some(2)
    /\ r.error = NoError
    /\ r.exit = 0
    /\ Len(r.received) = 5
    /\ Len(Favorited(r.received)) = 2

\* C10 as stated: against a response of 5 chats of which 2 are favorited,
\* chat list --favorites --limit 2 outputs exactly the 2 favorited chats.
C10_OutputsOnlyFavorites ==
    FixtureCase(run) => Listed(run) = Favorited(run.received)

\* C10 amended: chat list --favorites --limit 2 sends one 'list chats' request
\* carrying limit 2 and favorite true, and outputs exactly the chats of the
\* response, in the response's order; a response of 5 chats of which 2 are
\* favorited is output as those 5 chats.
C10_OutputsTheResponse ==
    FixtureCase(run) =>
        /\ Len(run.calls) = 1
        /\ run.calls[1].op = "chats.find"
        /\ run.calls[1].limit = Some(2)
        /\ run.calls[1].favorite = TRUE
        /\ Listed(run) = run.received

\* C10 witness: the 2 favorited chats are the last of the 5 in the response
C10_Witness ==
    /\ FixtureCase(run)
    /\ ~run.opts.json
    /\ run.received[4].favorite /\ run.received[5].favorite
    /\ Len(Listed(run)) = 5

\* the first pattern of ps that matches f
FirstPattern(ps, f) ==
    CHOOSE i \in 1..Len(ps) : f \in ps[i] /\ \A j \in 1..(i - 1) : f \notin ps[j]

\* the place of f in the traversal of the tree
TreeIndex(f) == CHOOSE i \in 1..Len(Tree) : Tree[i] = f

\* C13: collectFiles returns each path at most once, ordered by the first
\* pattern that matches it and, within one pattern, by traversal order; the
\* paths returned are the matched ones that survive the exclusion, so a
\* pattern that matches nothing adds nothing.
C13_FirstMatchOrder ==
    collected =>
        /\ \A a, b \in 1..Len(files) :
              a < b =>
                /\ files[a].name # files[b].name
                /\ \/ FirstPattern(patterns, files[a].name)
                        < FirstPattern(patterns, files[b].name)
                   \/ /\ FirstPattern(patterns, files[a].name)
                           = FirstPattern(patterns, files[b].name)
                      /\ TreeIndex(files[a].name) < TreeIndex(files[b].name)
        /\ ReturnedNames(files) = {f \in Matched(patterns) : ~skipped(f)}
        /\ \A i \in 1..Len(files) : files[i].content = fileText(files[i].name)

\* C13 witness: the second pattern matches again what the first matched, and
\* a file that precedes it in the traversal
C13_Witness ==
    /\ collected
    /\ patterns = <<{SrcB}, {SrcA, SrcB}>>
    /\ files = <<[name |-> SrcB, content |-> fileText(SrcB)],
                 [name |-> SrcA, content |-> fileText(SrcA)]>>

\* C11: logout removes the stored API key and changes nothing else; when no
\* key is stored, also when neither the config file nor its directory exists,
\* logout leaves the file system as it was, and it exits 0.
C11_LogoutNoOpWhenAbsent ==
    [][ (Idle /\ run'.cmd = "logout") =>
          /\ run'.exit = 0
          /\ StoredKey(configFile') = Undefined
          /\ linkFile' = linkFile
          /\ StoredKey(configFile) = Undefined =>
                /\ configFile' = configFile
                /\ configDir' = configDir ]_vars

\* the remote requests that create a chat
CreatingCalls(r) ==
    SelectSeq(r.calls, LAMBDA c : c.op \in {"chats.create", "chats.init"})

\* the project the directory is linked to, Undefined when it is not linked
LinkedTo ==
    IF lastLinkOp.op = "write" THEN lastLinkOp.projectId ELSE Undefined

\* C12: when the directory is linked to project P, chat create and chat init
\* send P in their create/init request unless --no-project is given; with
\* --no-project, or with no link, they send no project id.
C12_ProjectAttached ==
    (run.cmd \in {"chat create", "chat init"}) =>
        \A i \in 1..Len(CreatingCalls(run)) :
            CreatingCalls(run)[i].projectId =
                IF run.opts.project THEN LinkedTo ELSE Undefined

\* C12 witness: chat init in a directory linked, unlinked and linked again
\* sent the last linked project
C12_Witness ==
    /\ run.cmd = "chat init"
    /\ run.opts.project
    /\ LinkedTo = "proj_2"
    /\ Len(run.calls) > 0
    /\ run.calls[1].op = "chats.init"
    /\ run.calls[1].projectId = "proj_2"

\* how many of the invocation's file accesses are in kinds
Accesses(r, kinds) == Len(SelectSeq(r.fs, LAMBDA a : a \in kinds))

ConfigAccesses(r) == Accesses(r, {"config.read", "config.write"})
LinkAccesses(r) == Accesses(r, {"link.read", "link.write", "link.remove"})

\* C15 as stated: every invocation accesses the config file at most once and
\* the link file at most once.
C15_EachFileOnce ==
    ConfigAccesses(run) <= 1 /\ LinkAccesses(run) <= 1

\* C15 amended: every invocation reads the config file at most once and
\* writes it at most once, the write coming after the read and only in login
\* and logout; it accesses the link file at most once.
C15_OneReadOneWrite ==
    /\ Accesses(run, {"config.read"}) <= 1
    /\ Accesses(run, {"config.write"}) <= 1
    /\ Accesses(run, {"config.write"}) = 1 =>
          /\ run.cmd \in {"login", "logout"}
          /\ run.fs = <<"config.read", "config.write">>
    /\ LinkAccesses(run) <= 1

\* C15 witness: a successful login read the config and then wrote it
C15_Witness ==
    /\ run.cmd = "login"
    /\ run.exit = 0
    /\ run.fs = <<"config.read", "config.write">>
    /\ ConfigAccesses(run) = 2

\* C16: over any sequence of invocations the stored config changes only in a
\* login whose validation succeeded or in a logout, the link file only in a
\* link whose validation succeeded or in an unlink; whoami, the chat commands
\* and every invocation that exits 1 leave both files as they were.
C16_Frame ==
    [][ /\ (configFile' # configFile \/ configDir' # configDir) =>
              \/ /\ run'.cmd = "login"
                 /\ run'.exit = 0
                 /\ run'.calls = <<Request("user.get", run'.arg, Undefined)>>
                 /\ run'.error = NoError
              \/ run'.cmd = "logout"
        /\ linkFile' # linkFile =>
              \/ run'.cmd = "link" /\ ProjectValidated(run', run'.arg)
              \/ run'.cmd = "unlink"
        /\ (run'.exit = 1
             \/ run'.cmd \in {"whoami", "chat create", "chat list", "chat open",
                              "chat delete", "chat init"}) =>
              /\ configFile' = configFile
              /\ configDir' = configDir
              /\ linkFile' = linkFile ]_vars

\* C16 witness: a chat delete failed at the remote call with a key stored and
\* the directory linked
C16_Witness ==
    /\ run.cmd = "chat delete"
    /\ run.exit = 1
    /\ run.error.type = "not_found_error"
    /\ StoredKey(configFile) = "key_1"
    /\ LinkedProject(linkFile) = "proj_1"

\* the follow-up message call of a chat init
SendCalls(r) == SelectSeq(r.calls, LAMBDA c : c.op = "chats.sendMessage")

\* chat init passed its local checks: files were found and a key was resolved
ReachedRemote(r) ==
    /\ r.cmd = "chat init"
    /\ Len(files) > 0
    /\ ~NoKeyFailure(r)

\* C14: chat init with --message is two sequential remote calls: send message
\* is issued only after initialize chat has returned a chat and targets that
\* chat's id; when send message fails the invocation exits 1 without the
\* success output, issues no delete, and the created chat still exists.
\* Without --message a chat init that reaches the remote service makes
\* exactly one remote call, and no chat init makes more than one.
C14_TwoStepInit ==
    (run.cmd = "chat init") =>
        /\ Len(run.calls) <= 2
        /\ \A i \in 1..Len(run.calls) :
              run.calls[i].op = (IF i = 1 THEN "chats.init" ELSE "chats.sendMessage")
        /\ Len(SendCalls(run)) = 1 <=>
              /\ Truthy(run.opts.message)
              /\ run.created = <<NewChatId>>
        /\ Len(SendCalls(run)) = 1 =>
              /\ run.calls[2].arg = run.created[1]
              /\ run.calls[2].key = run.calls[1].key
              /\ run.error # NoError =>
                    /\ run.exit = 1
                    /\ Stdout(run) = <<>>
                    /\ run.created = <<NewChatId>>
        /\ ~Truthy(run.opts.message) =>
              /\ Len(run.calls) <= 1
              /\ ReachedRemote(run) => Len(run.calls) = 1

\* C14 witness: the chat was initialized and the follow-up message failed
C14_Witness ==
    /\ run.cmd = "chat init"
    /\ Truthy(run.opts.message)
    /\ Len(run.calls) = 2
    /\ run.calls[2].op = "chats.sendMessage"
    /\ run.error.type = "too_many_requests_error"
    /\ run.exit = 1
    /\ run.created = <<NewChatId>>

====
